---- MODULE Spec2Model ----
(***************************************************************************)
(* A model of rpm-rs: the multi-destination processor (RPMProcessor and    *)
(* its fan-out MultiWriter) and the package signer / verifier              *)
(* (RPMPackage::sign, RPMPackage::verify_signature).                        *)
(*                                                                         *)
(* Bytes are small integers and byte buffers are sequences of them.       *)
(***************************************************************************)
EXTENDS Integers, Sequences, FiniteSets, TLC

VARIABLES
    \* ---- RPMProcessor / MultiWriter ----
    metadata,      \* the RPMPackageMetadata: [lead, signature, header]
    body,          \* all the bytes of the body stream
    body_input,    \* bytes the body reader has not handed out yet
    verifiers,     \* multi_writer.verifiers: per verifier-writer, the bytes it accepted
    destinations,  \* multi_writer.destinations: per destination, the bytes it accepted
    ppc,           \* position of process(): "new", "metadata", "copy", "verify", "ok", "err"
    todo,          \* metadata parts metadata.write() has still to write_all
    buf,           \* what the running write_all has still to offer
    mw_pc,         \* position inside MultiWriter::write: "idle", "verifiers", "destinations", "return"
    mw_i,          \* index of the sink the running loop of MultiWriter::write is at
    written,       \* the local `written` of MultiWriter::write
    call_log,      \* sink writes of the running MultiWriter::write call, in order
    last_call,     \* the last finished MultiWriter::write call: its buffer, sink writes, result
    asked,         \* verifier-writers whose verify() was called, in order, with the outcome
    shorts,        \* sink writes so far that accepted fewer bytes than offered
    \* ---- RPMPackage: sign / verify_signature ----
    content,       \* RPMPackage.content: the payload bytes
    op,            \* the running or last operation: "none", "sign", "verify"
    spc,           \* its position: "idle", "md5", "sign1", "sign2", "verify1", "verify2"
    key,           \* the key of the backend passed to the operation
    header_bytes,  \* the local header_bytes
    position,      \* logical offset of header_and_content_cursor
    hasher,        \* the bytes fed to the MD5 hasher so far
    zero_reads,    \* reads of the digest loop that returned Ok(0)
    read_error,    \* a read of the digest loop returned Err
    rsa_header,    \* the local rsa_signature_spanning_header_only
    calls,         \* backend calls of the operation, in order
    result,        \* what the last finished operation returned: "none", "Ok" or the error
    prior,         \* the signature Header as it was when the operation was called
    \* ---- RPMPackage: write / parse ----
    out,           \* the bytes the writer passed to write() has taken
    wlog,          \* the parts write() wrote in full, in order
    wres,          \* what write() returned: "none", "Ok", "Err"
    source,        \* the package write() was called on, and the key it was last signed with
    input,         \* the bytes of the reader passed to parse() that are not read yet
    stages,        \* the stages of parse() that ran, in order, with their outcome
    pres,          \* what parse() returned: "none", "Ok", "Err"
    local,         \* the locals of parse(): the lead, signature and header parsed so far
    iopc,          \* position of write() / parse(): "idle", "w_signature", "w_header",
                   \* "w_content", "p_signature", "p_header", "p_content"
    \* ---- SeqCursor ----
    cursor_bufs,   \* the buffers the cursor was built over, in order
    cursor_pos,    \* its read position in the logical stream
    cursor_from,   \* the offset of the last successful seek
    cursor_got,    \* the bytes the reads since that seek returned, in order
    cursor_ret,    \* the count the last read returned, -1 if none since the seek
    cursor_err,    \* whether the last seek failed
    \* ---- RPMPackage::sign: the size of the signature header ----
    len_header,    \* header_bytes.len()
    len_content,   \* self.content.len()
    total_len,     \* header_and_content_cursor.len()
    size_arg,      \* the i32 passed to new_signature_header
    size_pc        \* "idle", "new", "len" (the cursor is built), "done" (the size is passed)

pvars == <<metadata, body, body_input, verifiers, destinations, ppc, todo, buf,
           mw_pc, mw_i, written, call_log, last_call, asked, shorts>>

\* The variables of write() and parse().
xvars == <<out, wlog, wres, source, input, stages, pres, local, iopc>>

\* The variables of the running sign() / verify_signature().
opvars == <<op, spc, key, header_bytes, position, hasher, zero_reads,
            read_error, rsa_header, calls, result, prior>>

\* The variables of a SeqCursor on its own.
cvars == <<cursor_bufs, cursor_pos, cursor_from, cursor_got, cursor_ret, cursor_err>>

\* The variables of the size computation of sign() on its own.
zvars == <<len_header, len_content, total_len, size_arg, size_pc>>

kvars == <<content, op, spc, key, header_bytes, position, hasher, zero_reads,
           read_error, rsa_header, calls, result, prior, xvars, cvars, zvars>>

\* The processor's variables but the metadata, which the package shares.
bvars == <<body, body_input, verifiers, destinations, ppc, todo, buf,
           mw_pc, mw_i, written, call_log, last_call, asked, shorts>>
ovars == <<bvars, cvars, zvars>>

\* What a step of sign() / verify_signature() leaves alone besides the package.
wvars == <<ovars, xvars>>

vars == <<pvars, kvars>>

\* ------------------------------------------------------------------ bounds
MaxVerifiers == 2
MaxDestinations == 2
MaxBody == 2
MaxShort == 1

\* ------------------------------------------------------------ byte helpers
LeadMagic == 237
HeaderMagic == 142

Min(S) == CHOOSE x \in S : \A y \in S : x <= y

Take(s, n) == SubSeq(s, 1, n)
Drop(s, n) == SubSeq(s, n + 1, Len(s))

RECURSIVE Concat(_)
Concat(ss) == IF ss = <<>> THEN <<>> ELSE Head(ss) \o Concat(Tail(ss))

RECURSIVE SortedSeq(_)
SortedSeq(S) == IF S = {} THEN <<>> ELSE <<Min(S)>> \o SortedSeq(S \ {Min(S)})

\* ----------------------------------------------------------- header codec
\* A Header is a function from tag ids to the entry's bytes.
EmptyHeader == [t \in {} |-> <<>>]

\* Lead::write: the fixed preamble block.
LeadBytes(lead) == <<LeadMagic, lead>>

RECURSIVE EntriesBytes(_, _)
EntriesBytes(h, tags) ==
    IF tags = <<>> THEN <<>>
    ELSE <<Head(tags), Len(h[Head(tags)])>> \o h[Head(tags)] \o EntriesBytes(h, Tail(tags))

\* Header::write / Header::write_signature: magic, entry count, then the
\* entries in ascending tag order.
HeaderBytes(h) ==
    <<HeaderMagic, Cardinality(DOMAIN h)>> \o EntriesBytes(h, SortedSeq(DOMAIN h))

\* Header::write_signature: the header, padded with zeros to the alignment
\* of the signature region.
SignaturePad == 8
Padding(n) == [i \in 1..((SignaturePad - (n % SignaturePad)) % SignaturePad) |-> 0]
SignatureBytes(h) == HeaderBytes(h) \o Padding(Len(HeaderBytes(h)))

\* As MetadataParts, but the main header is written before the signature header.
MetadataPartsHeaderFirst(md) ==
    <<LeadBytes(md.lead), HeaderBytes(md.header), SignatureBytes(md.signature)>>

\* RPMPackageMetadata::write: lead, signature header, main header, each
\* written in full (write_all) before the next.
MetadataParts(md) ==
    <<LeadBytes(md.lead), SignatureBytes(md.signature), HeaderBytes(md.header)>>

\* ------------------------------------------------------------- processor
\* The body stream of n bytes.
Body(n) == [i \in 1..n |-> HeaderMagic + i]

NoCall == [buf |-> <<>>, log |-> <<>>, done |-> FALSE, ok |-> FALSE, n |-> 0]

NoLocal == [lead |-> 0, signature |-> EmptyHeader, header |-> EmptyHeader]
NoSource == [metadata |-> NoLocal, content |-> <<>>, signed_with |-> 0]

\* Neither write() nor parse() has run.
XIdle ==
    /\ out = <<>>
    /\ wlog = <<>>
    /\ wres = "none"
    /\ source = NoSource
    /\ input = <<>>
    /\ stages = <<>>
    /\ pres = "none"
    /\ local = NoLocal
    /\ iopc = "idle"

\* A length of up to some GiB, in two limbs: hi * 2^30 + lo with lo < 2^30.
Limb == 1073741824
Length(hi, lo) == [hi |-> hi, lo |-> lo]
ToLength(x) == Length(x \div Limb, x % Limb)

\* No size computation on its own is running.
ZIdle ==
    /\ len_header = Length(0, 0)
    /\ len_content = Length(0, 0)
    /\ total_len = Length(0, 0)
    /\ size_arg = 0
    /\ size_pc = "idle"

\* No cursor on its own is in use.
CIdle ==
    /\ cursor_bufs = <<>>
    /\ cursor_pos = 0
    /\ cursor_from = 0
    /\ cursor_got = <<>>
    /\ cursor_ret = -1
    /\ cursor_err = FALSE

\* No package operation has run.
KIdle ==
    /\ XIdle
    /\ content = <<>>
    /\ op = "none"
    /\ spc = "idle"
    /\ key = 0
    /\ header_bytes = <<>>
    /\ position = 0
    /\ hasher = <<>>
    /\ zero_reads = 0
    /\ read_error = FALSE
    /\ rsa_header = <<>>
    /\ calls = <<>>
    /\ result = "none"
    /\ prior = EmptyHeader

\* RPMProcessor::new
ProcInit ==
    /\ metadata = [lead |-> 1, signature |-> EmptyHeader, header |-> EmptyHeader]
    /\ body \in {Body(n) : n \in 0..MaxBody}
    /\ body_input = body
    /\ verifiers = <<>>
    /\ destinations = <<>>
    /\ ppc = "new"
    /\ todo = <<>>
    /\ buf = <<>>
    /\ mw_pc = "idle"
    /\ mw_i = 0
    /\ written = 0
    /\ call_log = <<>>
    /\ last_call = NoCall
    /\ asked = <<>>
    /\ shorts = 0
    /\ KIdle
    /\ CIdle
    /\ ZIdle

NumVerifiers == Len(verifiers)
NumDestinations == Len(destinations)

\* RPMProcessor::add_verifier
AddVerifier ==
    /\ ppc = "new"
    /\ NumVerifiers < MaxVerifiers
    /\ verifiers' = Append(verifiers, <<>>)
    /\ UNCHANGED <<kvars, metadata, body, body_input, destinations, ppc, todo, buf, mw_pc, mw_i,
                   written, call_log, last_call, asked, shorts>>

\* RPMProcessor::add_destination
AddDestination ==
    /\ ppc = "new"
    /\ NumDestinations < MaxDestinations
    /\ destinations' = Append(destinations, <<>>)
    /\ UNCHANGED <<kvars, metadata, body, body_input, verifiers, ppc, todo, buf, mw_pc, mw_i,
                   written, call_log, last_call, asked, shorts>>

\* Where MultiWriter::write stands once the verifier loop is past index i.
AfterVerifier(i) ==
    IF i < NumVerifiers THEN <<"verifiers", i + 1>>
    ELSE IF NumDestinations > 0 THEN <<"destinations", 1>>
    ELSE <<"return", 0>>

\* Where MultiWriter::write stands once the destination loop is past index j.
AfterDestination(j) ==
    IF j < NumDestinations THEN <<"destinations", j + 1>> ELSE <<"return", 0>>

\* A call MultiWriter::write(b) begins: `written` is 0 until a destination sets it.
EnterWrite(b) ==
    /\ buf' = b
    /\ mw_pc' = AfterVerifier(0)[1]
    /\ mw_i' = AfterVerifier(0)[2]
    /\ written' = 0
    /\ call_log' = <<>>

\* No MultiWriter::write call is running.
LeaveWrite ==
    /\ buf' = <<>>
    /\ mw_pc' = "idle"
    /\ mw_i' = 0
    /\ written' = 0
    /\ call_log' = <<>>

\* The byte counts a sink's write(b) may report: all of b, or fewer (a short
\* write) while the run's short writes are within MaxShort.
Accepted(b) == IF shorts < MaxShort THEN 0..Len(b) ELSE {Len(b)}

Event(kind, i, ok, n) == [kind |-> kind, i |-> i, ok |-> ok, n |-> n]

Finished(b, log, ok, n) == [buf |-> b, log |-> log, done |-> TRUE, ok |-> ok, n |-> n]

\* process(): self.metadata.write(&mut self.multi_writer) begins with the lead.
ProcessStart ==
    /\ ppc = "new"
    /\ ppc' = "metadata"
    /\ todo' = Tail(MetadataParts(metadata))
    /\ EnterWrite(Head(MetadataParts(metadata)))
    /\ UNCHANGED <<kvars, metadata, body, body_input, verifiers, destinations, last_call, asked, shorts>>

\* `verifier.write(buf)?` with the verifier accepting n bytes: the count is dropped.
VerifierWrite ==
    /\ mw_pc = "verifiers"
    /\ \E n \in Accepted(buf) :
        /\ verifiers' = [verifiers EXCEPT ![mw_i] = @ \o Take(buf, n)]
        /\ call_log' = Append(call_log, Event("v", mw_i, TRUE, n))
        /\ shorts' = IF n < Len(buf) THEN shorts + 1 ELSE shorts
    /\ mw_pc' = AfterVerifier(mw_i)[1]
    /\ mw_i' = AfterVerifier(mw_i)[2]
    /\ UNCHANGED <<kvars, metadata, body, body_input, destinations, ppc, todo, buf, written,
                   last_call, asked>>

\* `written = destination.write(buf)?` with the destination accepting n bytes.
DestinationWrite ==
    /\ mw_pc = "destinations"
    /\ \E n \in Accepted(buf) :
        /\ destinations' = [destinations EXCEPT ![mw_i] = @ \o Take(buf, n)]
        /\ call_log' = Append(call_log, Event("d", mw_i, TRUE, n))
        /\ written' = n
        /\ shorts' = IF n < Len(buf) THEN shorts + 1 ELSE shorts
    /\ mw_pc' = AfterDestination(mw_i)[1]
    /\ mw_i' = AfterDestination(mw_i)[2]
    /\ UNCHANGED <<kvars, metadata, body, body_input, verifiers, ppc, todo, buf, last_call, asked>>

\* Faulty variant: a sink's error is dropped and the loop goes on to the next sink.
SinkWriteErrIgnored ==
    /\ mw_pc \in {"verifiers", "destinations"}
    /\ call_log' = Append(call_log,
                          Event(IF mw_pc = "verifiers" THEN "v" ELSE "d", mw_i, FALSE, 0))
    /\ mw_pc' = IF mw_pc = "verifiers" THEN AfterVerifier(mw_i)[1] ELSE AfterDestination(mw_i)[1]
    /\ mw_i' = IF mw_pc = "verifiers" THEN AfterVerifier(mw_i)[2] ELSE AfterDestination(mw_i)[2]
    /\ UNCHANGED <<kvars, metadata, body, body_input, verifiers, destinations, ppc, todo, buf,
                   written, last_call, asked, shorts>>

\* A sink's write returns an error: `?` leaves MultiWriter::write, write_all
\* and process() with it.
SinkWriteErr ==
    /\ mw_pc \in {"verifiers", "destinations"}
    /\ last_call' = Finished(buf,
                        Append(call_log,
                               Event(IF mw_pc = "verifiers" THEN "v" ELSE "d", mw_i, FALSE, 0)),
                        FALSE, 0)
    /\ ppc' = "err"
    /\ todo' = <<>>
    /\ LeaveWrite
    /\ UNCHANGED <<kvars, metadata, body, body_input, verifiers, destinations, asked, shorts>>

\* What MultiWriter::write returns in Ok: the local `written`.
WriteResult == written

\* `return Ok(written)`, and the write_all loop around the call: Ok(0) is a
\* WriteZero error, otherwise the unwritten rest of the buffer is offered
\* again; a finished buffer lets metadata.write / io::copy go on.
WriteReturn ==
    /\ mw_pc = "return"
    /\ last_call' = Finished(buf, call_log, TRUE, WriteResult)
    /\ IF WriteResult = 0
       THEN /\ ppc' = "err"
            /\ todo' = <<>>
            /\ LeaveWrite
       ELSE IF Drop(buf, WriteResult) # <<>>
       THEN /\ EnterWrite(Drop(buf, WriteResult))
            /\ UNCHANGED <<ppc, todo>>
       ELSE IF todo # <<>>
       THEN /\ EnterWrite(Head(todo))
            /\ todo' = Tail(todo)
            /\ UNCHANGED ppc
       ELSE /\ ppc' = "copy"
            /\ LeaveWrite
            /\ UNCHANGED todo
    /\ UNCHANGED <<kvars, metadata, body, body_input, verifiers, destinations, asked, shorts>>

\* io::copy: the reader hands out the next n bytes, which are write_all'ed.
CopyRead ==
    /\ ppc = "copy"
    /\ mw_pc = "idle"
    /\ body_input # <<>>
    /\ \E n \in 1..Len(body_input) :
        /\ EnterWrite(Take(body_input, n))
        /\ body_input' = Drop(body_input, n)
    /\ UNCHANGED <<kvars, metadata, body, verifiers, destinations, ppc, todo, last_call, asked, shorts>>

\* io::copy: the reader fails, `?` leaves process().
CopyReadErr ==
    /\ ppc = "copy"
    /\ mw_pc = "idle"
    /\ ppc' = "err"
    /\ UNCHANGED <<kvars, metadata, body, body_input, verifiers, destinations, todo, buf, mw_pc,
                   mw_i, written, call_log, last_call, asked, shorts>>

\* io::copy: the reader returns 0, the copy is over and
\* self.multi_writer.verify(&self.metadata) begins.
CopyEof ==
    /\ ppc = "copy"
    /\ mw_pc = "idle"
    /\ body_input = <<>>
    /\ ppc' = IF NumVerifiers = 0 THEN "ok" ELSE "verify"
    /\ UNCHANGED <<kvars, metadata, body, body_input, verifiers, destinations, todo, buf, mw_pc,
                   mw_i, written, call_log, last_call, asked, shorts>>

\* Faulty variant: a failed verify() does not stop the loop.
AfterVerifyIgnoringFailure(i, ok) == IF i < NumVerifiers THEN "verify" ELSE "ok"

\* Where process() stands after verifier i answered ok to verify(metadata).
AfterVerify(i, ok) ==
    IF ~ok THEN "err" ELSE IF i < NumVerifiers THEN "verify" ELSE "ok"

\* MultiWriter::verify: `verifier.verify(metadata)?` for the next verifier.
VerifyStep ==
    /\ ppc = "verify"
    /\ \E ok \in BOOLEAN :
        /\ asked' = Append(asked, [i |-> Len(asked) + 1, ok |-> ok])
        /\ ppc' = AfterVerify(Len(asked) + 1, ok)
    /\ UNCHANGED <<kvars, metadata, body, body_input, verifiers, destinations, todo, buf, mw_pc,
                   mw_i, written, call_log, last_call, shorts>>

ProcNext ==
    \/ AddVerifier
    \/ AddDestination
    \/ ProcessStart
    \/ VerifierWrite
    \/ DestinationWrite
    \/ SinkWriteErr
    \/ WriteReturn
    \/ CopyRead
    \/ CopyReadErr
    \/ CopyEof
    \/ VerifyStep

ProcSpec == ProcInit /\ [][ProcNext]_vars

\* ---------------------------------------------------- processor: claims
\* The bytes process() is to deliver: serialized metadata, then the body.
Stream == Concat(MetadataParts(metadata)) \o body

Counts(log) == {log[p].n : p \in 1..Len(log)}

\* C1: whenever MultiWriter::write returns Ok(n), n is the minimum of the
\* byte counts the individual sinks reported for this chunk.
C1_WriteReportsMinimum ==
    (last_call.done /\ last_call.ok /\ last_call.log # <<>>)
        => last_call.n = Min(Counts(last_call.log))

\* C2: when process() returns Ok, every verifier-writer and every destination
\* has received exactly the serialized metadata followed by the body.
C2_EverySinkGetsStream ==
    ppc = "ok" =>
        /\ \A i \in 1..NumVerifiers : verifiers[i] = Stream
        /\ \A j \in 1..NumDestinations : destinations[j] = Stream

\* The sink writes of one MultiWriter::write call are in order: the
\* verifier-writers in registration order, and a destination only after every
\* verifier-writer accepted the chunk.
OrderOK(log) ==
    \A p \in 1..Len(log) :
        /\ log[p].kind = "v" => log[p].i = p
        /\ log[p].kind = "d" =>
            /\ p > NumVerifiers
            /\ log[p].i = p - NumVerifiers
            /\ \A i \in 1..NumVerifiers : log[i].kind = "v" /\ log[i].ok

\* C3: for every chunk, every verifier-writer receives it, in registration
\* order, before any destination does, and no destination receives a chunk
\* that some verifier-writer failed to accept.
C3_VerifiersBeforeDestinations == OrderOK(call_log) /\ OrderOK(last_call.log)

C3_Witness ==
    /\ NumVerifiers = 2
    /\ last_call.done
    /\ \E p \in 1..Len(last_call.log) : last_call.log[p].kind = "d"

\* C4: verify(metadata) is called only once the body input is fully consumed,
\* on the verifier-writers in registration order, stopping at the first
\* failure; process() is Ok only if every one of them succeeded and fails if
\* any one of them fails.
C4_VerifyAfterCopyInOrder ==
    /\ asked # <<>> => (body_input = <<>> /\ buf = <<>> /\ mw_pc = "idle"
                          /\ ppc \in {"verify", "ok", "err"})
    /\ \A j \in 1..Len(asked) :
        /\ asked[j].i = j
        /\ j < Len(asked) => asked[j].ok
        /\ ~asked[j].ok => ppc = "err"
    /\ ppc = "ok" =>
        /\ Len(asked) = NumVerifiers
        /\ \A j \in 1..Len(asked) : asked[j].ok

C4_Witness ==
    /\ NumVerifiers = 2
    /\ Len(asked) = 2
    /\ ppc = "ok"
    /\ body # <<>>

\* A sink's write returned an error in the last MultiWriter::write call.
SinkErrorSeen == last_call.done /\ ~last_call.ok

MaxContent == 2
MaxEpoch == 1
NumKeys == 2
MaxZeroReads == 2

\* `let mut buf = [0u8; 256]`
BufSize == 256

RPMSIGTAG_SIZE == 1000
RPMSIGTAG_MD5 == 1004
RPMSIGTAG_SHA1 == 269
RPMSIGTAG_RSA == 268
RPMSIGTAG_PGP == 1002
RPMTAG_EPOCH == 1003

Keys == 1..NumKeys

\* Main headers a package may hold, and payloads.
Headers == {EmptyHeader} \cup {[t \in {RPMTAG_EPOCH} |-> <<e>>] : e \in 1..MaxEpoch}
Contents == {Body(n) : n \in 0..MaxContent}

\* Signature headers a parsed package may arrive with: any of the two
\* signature tags present or absent, signed by nobody this model knows.
ForeignSignatures ==
    {[t \in T |-> <<0>>] : T \in SUBSET {RPMSIGTAG_RSA, RPMSIGTAG_PGP}}

\* `x as i32` of a length x: kept up to i32::MAX, wrapped around above it.
MaxI32 == 2147483647
\* The same conversion of a length in limbs: the low 32 bits (hi % 4 and
\* lo), read as two's complement.
AsI32(len) ==
    IF len.hi % 4 < 2 THEN (len.hi % 4) * Limb + len.lo
    ELSE ((len.hi % 4) - 4) * Limb + len.lo
ToI32(x) == IF x <= MaxI32 THEN AsI32(ToLength(x)) ELSE (x - MaxI32) - MaxI32 - 2

\* md5::Md5 and sha1::Sha1 as collision-free digests of the bytes fed, the
\* SHA1 one in its to_string() form.
Md5Digest(fed) == <<16>> \o fed
Sha1Hex(data) == <<40>> \o data

\* The backends: signer.sign(data) with key k, and verifier.verify(data, sig).
Sign(k, data) == <<k>> \o data
BackendVerify(k, data, sig) == sig = Sign(k, data)

\* Header::<IndexSignatureTag>::new_signature_header
NewSignatureHeader(size, md5, sha1, rsa, pgp) ==
    [t \in {RPMSIGTAG_SIZE, RPMSIGTAG_MD5, RPMSIGTAG_SHA1, RPMSIGTAG_RSA, RPMSIGTAG_PGP} |->
        CASE t = RPMSIGTAG_SIZE -> <<size>>
          [] t = RPMSIGTAG_MD5 -> md5
          [] t = RPMSIGTAG_SHA1 -> sha1
          [] t = RPMSIGTAG_RSA -> rsa
          [] OTHER -> pgp]

\* Header::get_entry_binary_data(tag): is there an entry to return.
HasEntry(h, tag) == tag \in DOMAIN h

\* SeqCursor::new(&[header_bytes, content]): the logical stream and its len().
CursorStream == header_bytes \o content
CursorLen == Len(CursorStream)

\* SeqCursor::read into a buffer of BufSize bytes: the counts it may return at
\* offset pos, zero at the logical end.
ReadCounts(pos) ==
    IF pos >= CursorLen THEN {0}
    ELSE 1..(IF CursorLen - pos < BufSize THEN CursorLen - pos ELSE BufSize)

\* The processor is not in use.
PIdle ==
    /\ body = <<>>
    /\ body_input = <<>>
    /\ verifiers = <<>>
    /\ destinations = <<>>
    /\ ppc = "new"
    /\ todo = <<>>
    /\ buf = <<>>
    /\ mw_pc = "idle"
    /\ mw_i = 0
    /\ written = 0
    /\ call_log = <<>>
    /\ last_call = NoCall
    /\ asked = <<>>
    /\ shorts = 0

\* A package as RPMPackage::parse or the builder left it.
PkgInit ==
    /\ metadata \in [lead : {1}, signature : ForeignSignatures, header : Headers]
    /\ content \in Contents
    /\ op = "none"
    /\ spc = "idle"
    /\ key = 0
    /\ header_bytes = <<>>
    /\ position = 0
    /\ hasher = <<>>
    /\ zero_reads = 0
    /\ read_error = FALSE
    /\ rsa_header = <<>>
    /\ calls = <<>>
    /\ result = "none"
    /\ prior = EmptyHeader
    /\ XIdle
    /\ CIdle
    /\ ZIdle
    /\ PIdle

\* What is remembered of the last operation is dropped.
Forget ==
    /\ op' = "none"
    /\ result' = "none"
    /\ key' = 0
    /\ header_bytes' = <<>>
    /\ position' = 0
    /\ hasher' = <<>>
    /\ zero_reads' = 0
    /\ read_error' = FALSE
    /\ rsa_header' = <<>>
    /\ calls' = <<>>
    /\ prior' = EmptyHeader

\* The owner of the package changes the public field metadata.header.
SetHeader ==
    /\ spc = "idle"
    /\ \E h \in Headers \ {metadata.header} :
        metadata' = [metadata EXCEPT !.header = h]
    /\ Forget
    /\ UNCHANGED <<content, spc, wvars>>

\* The owner of the package changes the public field content.
SetContent ==
    /\ spc = "idle"
    /\ \E c \in Contents \ {content} : content' = c
    /\ Forget
    /\ UNCHANGED <<metadata, spc, wvars>>

BackendCall(kind, data, sig, ok) == [kind |-> kind, data |-> data, sig |-> sig, ok |-> ok]

\* sign(signer): header_bytes is a Vec<u8>, whose io::Write never fails, so
\* the fresh serialization of the main header succeeds; the cursor is built
\* and the digest loop entered.
SignBegin ==
    /\ spc = "idle"
    /\ \E k \in Keys : key' = k
    /\ op' = "sign"
    /\ result' = "none"
    /\ prior' = metadata.signature
    /\ header_bytes' = HeaderBytes(metadata.header)
    /\ position' = 0
    /\ hasher' = <<>>
    /\ zero_reads' = 0
    /\ read_error' = FALSE
    /\ rsa_header' = <<>>
    /\ calls' = <<>>
    /\ spc' = "md5"
    /\ UNCHANGED <<metadata, content, wvars>>

\* `while let Ok(n) = header_and_content_cursor.read(&mut buf[..])` with the
\* read returning Ok(n): the n bytes are fed to the hasher and the loop goes
\* on, for n = 0 too.
DigestRead ==
    /\ spc = "md5"
    /\ \E n \in ReadCounts(position) :
        /\ hasher' = hasher \o SubSeq(CursorStream, position + 1, position + n)
        /\ position' = position + n
        /\ zero_reads' = IF n = 0 /\ zero_reads < MaxZeroReads
                         THEN zero_reads + 1 ELSE zero_reads
    /\ UNCHANGED <<metadata, content, op, spc, key, header_bytes, read_error, rsa_header,
                   calls, result, prior, wvars>>

\* Faulty variant: the cursor is not rewound after the digest pass.
DigestReadErrNoSeek ==
    /\ spc = "md5"
    /\ spc' = "sign1"
    /\ read_error' = TRUE
    /\ UNCHANGED <<metadata, content, op, key, header_bytes, position, hasher, zero_reads,
                   rsa_header, calls, result, prior, wvars>>

\* The read returns an error: the `while let` loop is left, the hasher is
\* finalized over what it was fed, and seek(SeekFrom::Start(0)) rewinds the
\* cursor (offset 0 is never past the end, so the seek succeeds).
DigestReadErr ==
    /\ spc = "md5"
    /\ position' = 0
    /\ spc' = "sign1"
    /\ read_error' = TRUE
    /\ UNCHANGED <<metadata, content, op, key, header_bytes, hasher, zero_reads,
                   rsa_header, calls, result, prior, wvars>>

\* Faulty variant: the new signature Header is stored as soon as the first signature
\* is there, the second entry filled with it.
SignHeaderOnlyStoresEarly ==
    /\ spc = "sign1"
    /\ calls' = Append(calls, BackendCall("sign", header_bytes, <<>>, TRUE))
    /\ rsa_header' = Sign(key, header_bytes)
    /\ metadata' = [metadata EXCEPT !.signature =
                        NewSignatureHeader(ToI32(CursorLen), Md5Digest(hasher),
                                           Sha1Hex(header_bytes),
                                           Sign(key, header_bytes), Sign(key, header_bytes))]
    /\ spc' = "sign2"
    /\ UNCHANGED <<content, op, key, header_bytes, position, hasher, zero_reads, read_error,
                   result, prior, wvars>>

\* `signer.sign(header_bytes.as_slice())?`
SignHeaderOnly ==
    /\ spc = "sign1"
    /\ \E ok \in BOOLEAN :
        /\ calls' = Append(calls, BackendCall("sign", header_bytes, <<>>, ok))
        /\ IF ok
           THEN /\ rsa_header' = Sign(key, header_bytes)
                /\ spc' = "sign2"
                /\ UNCHANGED result
           ELSE /\ result' = "SignError"
                /\ spc' = "idle"
                /\ UNCHANGED rsa_header
    /\ UNCHANGED <<metadata, content, op, key, header_bytes, position, hasher, zero_reads, read_error,
                   prior, wvars>>

\* Faulty variant: the payload is moved out of the package while signing.
SignHeaderAndArchiveDropsContent ==
    /\ spc = "sign2"
    /\ calls' = Append(calls, BackendCall("sign", Drop(CursorStream, position), <<>>, TRUE))
    /\ metadata' = [metadata EXCEPT !.signature =
                        NewSignatureHeader(ToI32(CursorLen), Md5Digest(hasher),
                                           Sha1Hex(header_bytes), rsa_header,
                                           Sign(key, Drop(CursorStream, position)))]
    /\ content' = <<>>
    /\ position' = CursorLen
    /\ result' = "Ok"
    /\ spc' = "idle"
    /\ UNCHANGED <<op, key, header_bytes, hasher, zero_reads, read_error, rsa_header,
                   prior, wvars>>

\* `signer.sign(&mut header_and_content_cursor)?`: the backend reads the
\* cursor from its offset to the end; then the new signature Header replaces
\* the old one and sign() returns Ok.
SignHeaderAndArchive ==
    /\ spc = "sign2"
    /\ \E ok \in BOOLEAN :
        /\ calls' = Append(calls, BackendCall("sign", Drop(CursorStream, position), <<>>, ok))
        /\ IF ok
           THEN /\ metadata' = [metadata EXCEPT !.signature =
                        NewSignatureHeader(ToI32(CursorLen), Md5Digest(hasher),
                                           Sha1Hex(header_bytes), rsa_header,
                                           Sign(key, Drop(CursorStream, position)))]
                /\ position' = CursorLen
                /\ result' = "Ok"
           ELSE /\ result' = "SignError"
                /\ UNCHANGED <<metadata, position>>
    /\ spc' = "idle"
    /\ UNCHANGED <<content, op, key, header_bytes, hasher, zero_reads, read_error, rsa_header,
                   prior, wvars>>

\* Faulty variant: only the header-only signature is looked up before verifying.
VerifyBeginOneFetch ==
    /\ spc = "idle"
    /\ \E k \in Keys : key' = k
    /\ op' = "verify"
    /\ prior' = metadata.signature
    /\ header_bytes' = HeaderBytes(metadata.header)
    /\ position' = 0
    /\ hasher' = <<>>
    /\ zero_reads' = 0
    /\ read_error' = FALSE
    /\ rsa_header' = <<>>
    /\ calls' = <<>>
    /\ IF HasEntry(metadata.signature, RPMSIGTAG_RSA)
       THEN /\ spc' = "verify1"
            /\ result' = "none"
       ELSE /\ spc' = "idle"
            /\ result' = "MissingSignature"
    /\ UNCHANGED <<metadata, content, wvars>>

\* verify_signature(verifier): the main header is serialized afresh, then
\* get_entry_binary_data(RPMSIGTAG_RSA)? and get_entry_binary_data(RPMSIGTAG_PGP)?
VerifyBegin ==
    /\ spc = "idle"
    /\ \E k \in Keys : key' = k
    /\ op' = "verify"
    /\ prior' = metadata.signature
    /\ header_bytes' = HeaderBytes(metadata.header)
    /\ position' = 0
    /\ hasher' = <<>>
    /\ zero_reads' = 0
    /\ read_error' = FALSE
    /\ rsa_header' = <<>>
    /\ calls' = <<>>
    /\ IF HasEntry(metadata.signature, RPMSIGTAG_RSA)
            /\ HasEntry(metadata.signature, RPMSIGTAG_PGP)
       THEN /\ spc' = "verify1"
            /\ result' = "none"
       ELSE /\ spc' = "idle"
            /\ result' = "MissingSignature"
    /\ UNCHANGED <<metadata, content, wvars>>

\* Faulty variant: the backend's rejection is reported as a format error.
VerifyHeaderOnlyFormatError ==
    /\ spc = "verify1"
    /\ calls' = Append(calls,
                       BackendCall("verify", header_bytes, metadata.signature[RPMSIGTAG_RSA],
                                   BackendVerify(key, header_bytes,
                                                 metadata.signature[RPMSIGTAG_RSA])))
    /\ IF BackendVerify(key, header_bytes, metadata.signature[RPMSIGTAG_RSA])
       THEN /\ spc' = "verify2"
            /\ UNCHANGED result
       ELSE /\ spc' = "idle"
            /\ result' = "FormatError"
    /\ UNCHANGED <<metadata, content, op, key, header_bytes, position, hasher, zero_reads,
                   read_error, rsa_header, prior, wvars>>

\* `verifier.verify(header_bytes.as_slice(), signature_header_only)?`; the
\* backend's error is the "VerifyError" the `?` forwards.
VerifyHeaderOnly ==
    /\ spc = "verify1"
    /\ calls' = Append(calls,
                       BackendCall("verify", header_bytes, metadata.signature[RPMSIGTAG_RSA],
                                   BackendVerify(key, header_bytes,
                                                 metadata.signature[RPMSIGTAG_RSA])))
    /\ IF BackendVerify(key, header_bytes, metadata.signature[RPMSIGTAG_RSA])
       THEN /\ spc' = "verify2"
            /\ UNCHANGED result
       ELSE /\ spc' = "idle"
            /\ result' = "VerifyError"
    /\ UNCHANGED <<metadata, content, op, key, header_bytes, position, hasher, zero_reads, read_error,
                   rsa_header, prior, wvars>>

\* Faulty variant: the outcome of the second check is dropped.
VerifyHeaderAndContentUnchecked ==
    /\ spc = "verify2"
    /\ calls' = Append(calls,
                       BackendCall("verify", CursorStream, metadata.signature[RPMSIGTAG_PGP],
                                   BackendVerify(key, CursorStream,
                                                 metadata.signature[RPMSIGTAG_PGP])))
    /\ result' = "Ok"
    /\ spc' = "idle"
    /\ UNCHANGED <<metadata, content, op, key, header_bytes, position, hasher, zero_reads, read_error,
                   rsa_header, prior, wvars>>

\* A fresh cursor over header_bytes and content, then
\* `verifier.verify(header_and_content_cursor, signature_header_and_content)?`
VerifyHeaderAndContent ==
    /\ spc = "verify2"
    /\ calls' = Append(calls,
                       BackendCall("verify", CursorStream, metadata.signature[RPMSIGTAG_PGP],
                                   BackendVerify(key, CursorStream,
                                                 metadata.signature[RPMSIGTAG_PGP])))
    /\ result' = IF BackendVerify(key, CursorStream, metadata.signature[RPMSIGTAG_PGP])
                 THEN "Ok" ELSE "VerifyError"
    /\ spc' = "idle"
    /\ UNCHANGED <<metadata, content, op, key, header_bytes, position, hasher, zero_reads, read_error,
                   rsa_header, prior, wvars>>

PkgNext ==
    \/ SetHeader
    \/ SetContent
    \/ SignBegin
    \/ DigestRead
    \/ DigestReadErr
    \/ SignHeaderOnly
    \/ SignHeaderAndArchive
    \/ VerifyBegin
    \/ VerifyHeaderOnly
    \/ VerifyHeaderAndContent

PkgSpec == PkgInit /\ [][PkgNext]_vars

\* ------------------------------------------------------ package: claims
SignReturned == op = "sign" /\ spc = "idle"
VerifyReturned == op = "verify" /\ spc = "idle"

C6_DigestLoopExitsAtEnd == spc = "md5" => zero_reads = 0

\* C7: the MD5 digest sign() stores is the digest of exactly the freshly
\* serialized main-header bytes followed by the payload bytes, and the SHA1
\* digest is the digest of the serialized main-header bytes alone.
C7_DigestsCoverStream ==
    (SignReturned /\ result = "Ok") =>
        /\ metadata.signature[RPMSIGTAG_MD5] =
               Md5Digest(HeaderBytes(metadata.header) \o content)
        /\ metadata.signature[RPMSIGTAG_SHA1] = Sha1Hex(HeaderBytes(metadata.header))

\* C8: sign() calls the signing backend at most twice, first over the header
\* bytes and then over the whole header and payload stream from offset 0; when
\* it returns Ok it made both calls and the two stored signatures are the
\* results of the two calls.
C8_TwoBackendSignCalls ==
    op = "sign" =>
        /\ Len(calls) <= 2
        /\ \A c \in 1..Len(calls) : calls[c].kind = "sign"
        /\ Len(calls) >= 1 => calls[1].data = HeaderBytes(metadata.header)
        /\ Len(calls) >= 2 => calls[2].data = HeaderBytes(metadata.header) \o content
        /\ (SignReturned /\ result = "Ok") =>
            /\ Len(calls) = 2
            /\ metadata.signature[RPMSIGTAG_RSA] = Sign(key, calls[1].data)
            /\ metadata.signature[RPMSIGTAG_PGP] = Sign(key, calls[2].data)

C8_Witness ==
    /\ SignReturned
    /\ result = "Ok"
    /\ content # <<>>
    /\ metadata.signature[RPMSIGTAG_RSA] # metadata.signature[RPMSIGTAG_PGP]

\* A signature the verifier needs is not in the signature Header.
SignatureMissing ==
    ~HasEntry(metadata.signature, RPMSIGTAG_RSA) \/ ~HasEntry(metadata.signature, RPMSIGTAG_PGP)

\* C9: verify_signature() on a signature Header that lacks the header-only or
\* the header+payload signature tag fails with the missing-signature error,
\* and makes no backend verify call.
C9_MissingSignatureFails ==
    (op = "verify" /\ SignatureMissing) =>
        /\ spc = "idle"
        /\ result = "MissingSignature"
        /\ calls = <<>>

C9_Witness ==
    /\ VerifyReturned
    /\ HasEntry(metadata.signature, RPMSIGTAG_RSA)
    /\ ~HasEntry(metadata.signature, RPMSIGTAG_PGP)
    /\ result = "MissingSignature"

\* Both checks of verify_signature() as the backend with the given key
\* decides them.
HeaderOnlyCheck ==
    /\ HasEntry(metadata.signature, RPMSIGTAG_RSA)
    /\ BackendVerify(key, HeaderBytes(metadata.header), metadata.signature[RPMSIGTAG_RSA])
HeaderAndContentCheck ==
    /\ HasEntry(metadata.signature, RPMSIGTAG_PGP)
    /\ BackendVerify(key, HeaderBytes(metadata.header) \o content,
                     metadata.signature[RPMSIGTAG_PGP])

\* C10: verify_signature() returns Ok if and only if the backend verify over
\* the re-serialized header bytes and the header-only signature succeeds and
\* the backend verify over the header and payload stream and the
\* header+payload signature succeeds.
C10_OkIffBothChecks ==
    VerifyReturned =>
        /\ result = "Ok" <=> (HeaderOnlyCheck /\ HeaderAndContentCheck)
        /\ result = "Ok" =>
            /\ Len(calls) = 2
            /\ calls[1] = BackendCall("verify", HeaderBytes(metadata.header),
                                      metadata.signature[RPMSIGTAG_RSA], TRUE)
            /\ calls[2] = BackendCall("verify", HeaderBytes(metadata.header) \o content,
                                      metadata.signature[RPMSIGTAG_PGP], TRUE)

C10_Witness ==
    /\ VerifyReturned
    /\ result = "Ok"
    /\ content # <<>>

\* The signature Header sign() was called with is one that sign() stored for
\* the same key, main header and payload.
PriorSignedAlike ==
    /\ HasEntry(prior, RPMSIGTAG_MD5)
    /\ prior[RPMSIGTAG_RSA] = Sign(key, HeaderBytes(metadata.header))
    /\ prior[RPMSIGTAG_PGP] = Sign(key, HeaderBytes(metadata.header) \o content)

\* C15: signing again with the same backend, main header and payload
\* unchanged, stores the same MD5 digest, SHA1 digest and size as the signing
\* before.
C15_ResignSameDigests ==
    (SignReturned /\ result = "Ok" /\ PriorSignedAlike) =>
        /\ metadata.signature[RPMSIGTAG_MD5] = prior[RPMSIGTAG_MD5]
        /\ metadata.signature[RPMSIGTAG_SHA1] = prior[RPMSIGTAG_SHA1]
        /\ metadata.signature[RPMSIGTAG_SIZE] = prior[RPMSIGTAG_SIZE]

\* C16: a read error in the digest pass makes sign() return an error at
\* once, and no signature Header is built from the digest of a partly read
\* stream.
C16_ReadErrorPropagated ==
    /\ (op = "sign" /\ read_error) => (spc = "idle" /\ result \notin {"none", "Ok"})
    /\ (SignReturned /\ result = "Ok") => hasher = CursorStream

\* C17: when the verifying backend rejects a signature, verify_signature()
\* fails with the backend's error, not with another error and not with Ok.
C17_BackendErrorForwarded ==
    VerifyReturned =>
        /\ (calls # <<>> /\ ~calls[Len(calls)].ok) => result = "VerifyError"
        /\ (~SignatureMissing /\ ~(HeaderOnlyCheck /\ HeaderAndContentCheck))
              => result = "VerifyError"

\* verify_signature() returned after a backend with another key than the
\* signer's rejected the signature.
C17_Witness ==
    /\ VerifyReturned
    /\ result = "VerifyError"
    /\ ~SignatureMissing
    /\ \E k \in Keys \ {key} :
        /\ metadata.signature[RPMSIGTAG_RSA] = Sign(k, HeaderBytes(metadata.header))
        /\ metadata.signature[RPMSIGTAG_PGP] = Sign(k, HeaderBytes(metadata.header) \o content)

\* C20: a step of sign() changes nothing of the package but the signature
\* Header, and a step of verify_signature() changes nothing of it at all.
C20_OnlySignatureChanges ==
    [][op' \in {"sign", "verify"} =>
          /\ metadata'.lead = metadata.lead
          /\ metadata'.header = metadata.header
          /\ content' = content
          /\ op' = "verify" => metadata' = metadata]_vars

C20_Witness ==
    /\ SignReturned
    /\ result = "Ok"
    /\ metadata.signature # prior
    /\ content # <<>>
    /\ metadata.header # EmptyHeader

\* ------------------------------------------------------------------
\* RPMPackage::write and RPMPackage::parse
\* ------------------------------------------------------------------

\* The tags a signature header and a main header may hold.
SignatureTags ==
    {RPMSIGTAG_SIZE, RPMSIGTAG_MD5, RPMSIGTAG_SHA1, RPMSIGTAG_RSA, RPMSIGTAG_PGP}
IndexTags == {RPMTAG_EPOCH}

LeadSize == Len(LeadBytes(0))

ParseFailed == [ok |-> FALSE, value |-> EmptyHeader, rest |-> <<>>]

\* Lead::parse of the LeadSize bytes read_exact took from the input.
ParseLead(bytes) ==
    IF Len(bytes) < LeadSize \/ bytes[1] # LeadMagic
    THEN [ok |-> FALSE, value |-> 0, rest |-> <<>>]
    ELSE [ok |-> TRUE, value |-> bytes[2], rest |-> Drop(bytes, LeadSize)]

\* The entries of a header: n of them, each a tag, a length and that many
\* bytes. Input that ends early, or a tag the header does not know, fails.
RECURSIVE ParseEntries(_, _, _, _)
ParseEntries(bytes, n, h, tags) ==
    IF n = 0 THEN [ok |-> TRUE, value |-> h, rest |-> bytes]
    ELSE IF Len(bytes) < 2 THEN ParseFailed
    ELSE IF bytes[1] \notin tags \/ Len(bytes) < 2 + bytes[2] THEN ParseFailed
    ELSE ParseEntries(Drop(bytes, 2 + bytes[2]), n - 1,
                      (bytes[1] :> SubSeq(bytes, 3, 2 + bytes[2])) @@ h, tags)

\* Header::parse: the magic, the number of entries, the entries.
ParseHeader(bytes, tags) ==
    IF Len(bytes) < 2 THEN ParseFailed
    ELSE IF bytes[1] # HeaderMagic THEN ParseFailed
    ELSE ParseEntries(Drop(bytes, 2), bytes[2], EmptyHeader, tags)

\* Header::parse_signature: Header::parse, then the padding is skipped.
ParseSignature(bytes) ==
    LET r == ParseHeader(bytes, SignatureTags)
        pad == Len(Padding(Len(bytes) - Len(r.rest)))
    IN  IF ~r.ok THEN r
        ELSE IF Len(r.rest) < pad THEN ParseFailed
        ELSE [r EXCEPT !.rest = Drop(r.rest, pad)]

\* The key of the last successful sign() of the package, 0 if there is none.
SignedWith == IF op = "sign" /\ result = "Ok" THEN key ELSE 0

\* write_all of one part: the writer takes it whole, or fails after taking
\* less than all of it, and `?` returns the error.
WritePart(part, bytes, next) ==
    /\ \/ /\ out' = out \o bytes
          /\ wlog' = Append(wlog, part)
          /\ iopc' = next
          /\ wres' = IF next = "idle" THEN "Ok" ELSE wres
       \/ \E n \in 0..(Len(bytes) - 1) :
          /\ out' = out \o Take(bytes, n)
          /\ wlog' = wlog
          /\ iopc' = "idle"
          /\ wres' = "Err"
    /\ UNCHANGED <<metadata, content, opvars, ovars, input, stages, pres, local>>

\* RPMPackage::write is called; RPMPackageMetadata::write writes the lead.
WriteLead ==
    /\ spc = "idle"
    /\ iopc = "idle"
    /\ wres = "none"
    /\ source' = [metadata |-> metadata, content |-> content,
                  signed_with |-> SignedWith]
    /\ WritePart("lead", MetadataParts(metadata)[1], "w_signature")

\* As WriteSignature, but an empty signature header is written.
WriteSignatureUnsigned ==
    /\ iopc = "w_signature"
    /\ WritePart("signature", SignatureBytes(EmptyHeader), "w_header")
    /\ UNCHANGED source

\* self.signature.write_signature(out)?
WriteSignature ==
    /\ iopc = "w_signature"
    /\ WritePart("signature", MetadataParts(metadata)[2], "w_header")
    /\ UNCHANGED source

\* self.header.write(out)?
WriteHeader ==
    /\ iopc = "w_header"
    /\ WritePart("header", MetadataParts(metadata)[3], "w_content")
    /\ UNCHANGED source

\* RPMPackage::write: out.write_all(&self.content) after the metadata.
WriteContent ==
    /\ iopc = "w_content"
    /\ WritePart("content", content, "idle")
    /\ UNCHANGED source

\* A stage of parse() failed: `?` returns the error and the locals are dropped.
ParseAbort(stage) ==
    /\ stages' = Append(stages, [stage |-> stage, ok |-> FALSE])
    /\ pres' = "Err"
    /\ iopc' = "idle"
    /\ local' = NoLocal
    /\ UNCHANGED <<metadata, content, opvars, input>>

\* RPMPackage::parse is called on the bytes a finished write() left;
\* RPMPackageMetadata::parse reads and parses the lead.
ParseLeadStage ==
    /\ spc = "idle"
    /\ iopc = "idle"
    /\ wres # "none"
    /\ pres = "none"
    /\ \E io_ok \in BOOLEAN :
        LET r == ParseLead(out)
        IN  IF io_ok /\ r.ok
            THEN /\ input' = r.rest
                 /\ local' = [local EXCEPT !.lead = r.value]
                 /\ stages' = Append(stages, [stage |-> "lead", ok |-> TRUE])
                 /\ iopc' = "p_signature"
                 /\ UNCHANGED <<metadata, content, opvars, pres>>
            ELSE /\ input' = out
                 /\ stages' = Append(stages, [stage |-> "lead", ok |-> FALSE])
                 /\ pres' = "Err"
                 /\ iopc' = "idle"
                 /\ UNCHANGED <<metadata, content, opvars, local>>
    /\ UNCHANGED <<ovars, out, wlog, wres, source>>

\* As ParseSignatureStage, but a failure does not stop the parse.
ParseSignatureStageGoesOn ==
    /\ iopc = "p_signature"
    /\ \E io_ok \in BOOLEAN :
        LET r == ParseSignature(input)
        IN  /\ input' = IF io_ok /\ r.ok THEN r.rest ELSE input
            /\ local' = IF io_ok /\ r.ok THEN [local EXCEPT !.signature = r.value] ELSE local
            /\ stages' = Append(stages, [stage |-> "signature", ok |-> io_ok /\ r.ok])
            /\ iopc' = "p_header"
            /\ UNCHANGED <<metadata, content, opvars, pres>>
    /\ UNCHANGED <<ovars, out, wlog, wres, source>>

\* let signature_header = Header::parse_signature(input)?
ParseSignatureStage ==
    /\ iopc = "p_signature"
    /\ \E io_ok \in BOOLEAN :
        LET r == ParseSignature(input)
        IN  IF io_ok /\ r.ok
            THEN /\ input' = r.rest
                 /\ local' = [local EXCEPT !.signature = r.value]
                 /\ stages' = Append(stages, [stage |-> "signature", ok |-> TRUE])
                 /\ iopc' = "p_header"
                 /\ UNCHANGED <<metadata, content, opvars, pres>>
            ELSE ParseAbort("signature")
    /\ UNCHANGED <<ovars, out, wlog, wres, source>>

\* let header = Header::parse(input)?
ParseHeaderStage ==
    /\ iopc = "p_header"
    /\ \E io_ok \in BOOLEAN :
        LET r == ParseHeader(input, IndexTags)
        IN  IF io_ok /\ r.ok
            THEN /\ input' = r.rest
                 /\ local' = [local EXCEPT !.header = r.value]
                 /\ stages' = Append(stages, [stage |-> "header", ok |-> TRUE])
                 /\ iopc' = "p_content"
                 /\ UNCHANGED <<metadata, content, opvars, pres>>
            ELSE ParseAbort("header")
    /\ UNCHANGED <<ovars, out, wlog, wres, source>>

\* As ReadContentStage, but the first byte after the main header is lost.
ReadContentStageSkipsByte ==
    /\ iopc = "p_content"
    /\ \E io_ok \in BOOLEAN :
        IF io_ok
        THEN /\ metadata' = local
             /\ content' = IF input = <<>> THEN input ELSE Tail(input)
             /\ input' = <<>>
             /\ stages' = Append(stages, [stage |-> "content", ok |-> TRUE])
             /\ pres' = "Ok"
             /\ iopc' = "idle"
             /\ local' = NoLocal
             /\ Forget
             /\ UNCHANGED spc
        ELSE ParseAbort("content")
    /\ UNCHANGED <<ovars, out, wlog, wres, source>>

\* RPMPackage::parse: read_to_end takes what is left of the input as the
\* content, and the package parsed is the one the caller holds from now on.
ReadContentStage ==
    /\ iopc = "p_content"
    /\ \E io_ok \in BOOLEAN :
        IF io_ok
        THEN /\ metadata' = local
             /\ content' = input
             /\ input' = <<>>
             /\ stages' = Append(stages, [stage |-> "content", ok |-> TRUE])
             /\ pres' = "Ok"
             /\ iopc' = "idle"
             /\ local' = NoLocal
             /\ Forget
             /\ UNCHANGED spc
        ELSE ParseAbort("content")
    /\ UNCHANGED <<ovars, out, wlog, wres, source>>

\* sign() of the package that is going to be written; it is signed once.
SignBeforeWrite == wres = "none" /\ iopc = "idle" /\ op = "none" /\ SignBegin

\* verify_signature() of the package that parse() returned.
VerifyAfterParse == pres = "Ok" /\ VerifyBegin

IoNext ==
    \/ SignBeforeWrite
    \/ DigestRead
    \/ DigestReadErr
    \/ SignHeaderOnly
    \/ SignHeaderAndArchive
    \/ WriteLead
    \/ WriteSignature
    \/ WriteHeader
    \/ WriteContent
    \/ ParseLeadStage
    \/ ParseSignatureStage
    \/ ParseHeaderStage
    \/ ReadContentStage
    \/ VerifyAfterParse
    \/ VerifyHeaderOnly
    \/ VerifyHeaderAndContent

IoSpec == PkgInit /\ [][IoNext]_vars

\* The names of the parts of a package and of the stages of its parse.
PartNames == <<"lead", "signature", "header", "content">>

\* The four parts of a package as bytes, each from its own codec.
PackageBytes(md, payload) ==
    <<LeadBytes(md.lead), SignatureBytes(md.signature), HeaderBytes(md.header), payload>>

WriteReturned == wres # "none" /\ iopc \notin {"w_signature", "w_header", "w_content"}
ParseReturned == pres # "none"

\* C13: a successful write() has emitted the preamble, the signature header,
\* the main header and the payload, in that order and nothing else; a part
\* that fails to write is the last one the writer saw anything of.
C13_WriteInOrder ==
    LET parts == PackageBytes(source.metadata, source.content)
    IN  /\ wlog = Take(PartNames, Len(wlog))
        /\ wres = "Ok" => (wlog = PartNames /\ out = Concat(parts))
        /\ wres = "Err" =>
              /\ Len(wlog) < Len(PartNames)
              /\ \E n \in 0..(Len(parts[Len(wlog) + 1]) - 1) :
                    out = Concat(Take(parts, Len(wlog))) \o Take(parts[Len(wlog) + 1], n)

C13_Witness ==
    /\ wres = "Ok"
    /\ source.signed_with # 0
    /\ source.metadata.header # EmptyHeader
    /\ source.content # <<>>

\* C12: the stages of RPMPackageMetadata::parse run in the order lead,
\* signature header, main header; a stage that fails is the last one that
\* ran, parse() fails, the input is not read again, and the caller gets no
\* package; input that ends before the main header does makes it fail.
C12_ParseStagesFailFast ==
    /\ [](/\ stages = Take([i \in 1..Len(stages) |->
                                [stage |-> PartNames[i], ok |-> stages[i].ok]], Len(stages))
          /\ Len(stages) <= Len(PartNames)
          /\ \A i \in 1..Len(stages) :
                ~stages[i].ok => (i = Len(stages) /\ pres = "Err" /\ iopc = "idle")
          /\ pres = "Err" =>
                /\ stages # <<>> /\ ~stages[Len(stages)].ok
                /\ local = NoLocal
                /\ metadata = source.metadata /\ content = source.content
          /\ (ParseReturned /\ wres = "Err" /\ Len(wlog) < 3) => pres = "Err")
    /\ [][pres = "Err" => (input' = input /\ stages' = stages /\ pres' = pres)]_vars

C12_Witness ==
    /\ pres = "Err"
    /\ Len(stages) = 3
    /\ wlog = <<"lead", "signature">>
    /\ input # <<>>

\* C14: parse() of what a successful write() wrote returns the package
\* written; whatever parse() returns, its parts written again are the bytes
\* it read, so the payload is every byte after the main header.
C14_WriteParseRoundTrip ==
    pres = "Ok" =>
        /\ Concat(PackageBytes(metadata, content)) = out
        /\ wres = "Ok" => (metadata = source.metadata /\ content = source.content)

C14_Witness ==
    /\ pres = "Ok"
    /\ wres = "Ok"
    /\ Len(content) = MaxContent
    /\ metadata.header # EmptyHeader
    /\ DOMAIN metadata.signature = SignatureTags

\* C11: a package signed with a key, written, parsed again and verified
\* with the same key verifies; the two signatures checked are the RSA and PGP
\* entries sign() stored, each made over the bytes it is checked against.
C11_SignVerifyRoundTrip ==
    (VerifyReturned /\ pres = "Ok" /\ wres = "Ok"
        /\ source.signed_with # 0 /\ key = source.signed_with) =>
        /\ result = "Ok"
        /\ Len(calls) = 2
        /\ calls[1].sig = source.metadata.signature[RPMSIGTAG_RSA]
        /\ calls[1].sig = Sign(key, calls[1].data)
        /\ calls[1].data = HeaderBytes(source.metadata.header)
        /\ calls[2].sig = source.metadata.signature[RPMSIGTAG_PGP]
        /\ calls[2].sig = Sign(key, calls[2].data)
        /\ calls[2].data = HeaderBytes(source.metadata.header) \o source.content

C11_Witness ==
    /\ VerifyReturned
    /\ result = "Ok"
    /\ source.signed_with = key
    /\ source.content # <<>>

\* ------------------------------------------------------------------
\* SeqCursor
\* ------------------------------------------------------------------

MaxSegments == 3
MaxSegLen == 2

\* The lengths of the buffers a cursor is built over: 1..MaxSegments
\* buffers, none of them empty.
SegmentLengths == UNION {[1..n -> 1..MaxSegLen] : n \in 1..MaxSegments}

RECURSIVE SumTo(_, _)
SumTo(lens, i) == IF i = 0 THEN 0 ELSE lens[i] + SumTo(lens, i - 1)

\* Buffers of the given lengths in which every byte of the stream is
\* different, so that a byte returned twice or left out shows.
Segments(lens) ==
    [i \in 1..Len(lens) |-> [j \in 1..lens[i] |-> SumTo(lens, i - 1) + j]]

\* SeqCursor::len: the total logical length.
SeqCursorLen(bufs) == Len(Concat(bufs))

\* As SeqCursorRead, but a read stops at the end of the buffer it started in
\* and the next read starts one byte into the next buffer.
RECURSIVE SeqCursorReadGap(_, _, _)
SeqCursorReadGap(bufs, pos, n) ==
    IF n = 0 \/ bufs = <<>> THEN <<>>
    ELSE IF pos >= Len(Head(bufs))
         THEN SeqCursorReadGap(Tail(bufs), pos - Len(Head(bufs)) + 1, n)
         ELSE SubSeq(Head(bufs), pos + 1, Min({Len(Head(bufs)), pos + n}))

\* SeqCursor::read: up to n bytes from position pos on, taken from the
\* buffer pos lies in and, when that one is used up, from the next.
RECURSIVE SeqCursorRead(_, _, _)
SeqCursorRead(bufs, pos, n) ==
    IF n = 0 \/ bufs = <<>> THEN <<>>
    ELSE IF pos >= Len(Head(bufs))
         THEN SeqCursorRead(Tail(bufs), pos - Len(Head(bufs)), n)
         ELSE LET k == Min({Len(Head(bufs)) - pos, n})
              IN  SubSeq(Head(bufs), pos + 1, pos + k) \o SeqCursorRead(Tail(bufs), 0, n - k)

\* SeqCursor::new over N non-empty buffers.
CursorInit ==
    /\ metadata = [lead |-> 1, signature |-> EmptyHeader, header |-> EmptyHeader]
    /\ PIdle
    /\ KIdle
    /\ ZIdle
    /\ cursor_bufs \in {Segments(lens) : lens \in SegmentLengths}
    /\ cursor_pos = 0
    /\ cursor_from = 0
    /\ cursor_got = <<>>
    /\ cursor_ret = -1
    /\ cursor_err = FALSE

\* cursor.read(&mut buf) with a buffer of n bytes, 1 <= n <= L.
CursorReadStep ==
    /\ \E n \in 1..SeqCursorLen(cursor_bufs) :
        LET bytes == SeqCursorRead(cursor_bufs, cursor_pos, n)
        IN  /\ cursor_got' = cursor_got \o bytes
            /\ cursor_pos' = cursor_pos + Len(bytes)
            /\ cursor_ret' = Len(bytes)
    /\ cursor_err' = FALSE
    /\ UNCHANGED <<cursor_bufs, cursor_from, metadata, content, opvars, xvars, bvars, zvars>>

\* cursor.seek(SeekFrom::Start(t)): fails if t exceeds the logical length.
CursorSeekStep ==
    /\ \E t \in 0..(SeqCursorLen(cursor_bufs) + 1) :
        IF t > SeqCursorLen(cursor_bufs)
        THEN /\ cursor_err' = TRUE
             /\ UNCHANGED <<cursor_pos, cursor_from, cursor_got, cursor_ret>>
        ELSE /\ cursor_err' = FALSE
             /\ cursor_pos' = t
             /\ cursor_from' = t
             /\ cursor_got' = <<>>
             /\ cursor_ret' = -1
    /\ UNCHANGED <<cursor_bufs, metadata, content, opvars, xvars, bvars, zvars>>

CursorNext ==
    \/ CursorReadStep
    \/ CursorSeekStep

CursorSpec == CursorInit /\ [][CursorNext]_vars

\* C18: what the reads since the last seek returned is the concatenation
\* of the buffers from the offset sought (0 at first) up to the position,
\* whatever the chunk sizes and the buffer boundaries; a read returns
\* zero exactly at the logical end.
C18_CursorReadsConcatenation ==
    LET all == Concat(cursor_bufs)
    IN  /\ cursor_pos <= Len(all)
        /\ cursor_from <= cursor_pos
        /\ cursor_got = SubSeq(all, cursor_from + 1, cursor_pos)
        /\ cursor_ret # -1 =>
              (cursor_ret = 0 <=> cursor_pos - cursor_ret = Len(all))

\* Reads that began at an offset inside the second buffer reached the end of
\* a cursor over three buffers.
C18_Witness ==
    /\ Len(cursor_bufs) = 3
    /\ cursor_from > Len(cursor_bufs[1])
    /\ cursor_from < Len(cursor_bufs[1]) + Len(cursor_bufs[2])
    /\ cursor_ret = 0
    /\ Len(cursor_got) > 1

\* ------------------------------------------------------------------
\* The processor without destinations
\* ------------------------------------------------------------------

\* In the call of MultiWriter::write every sink took all of the buffer.
AllAccepted(call) ==
    /\ call.done
    /\ call.ok
    /\ call.log # <<>>
    /\ \A p \in 1..Len(call.log) : call.log[p].ok /\ call.log[p].n = Len(call.buf)

\* C21: with at least one verifier-writer and no destination, a
\* MultiWriter::write in which every verifier-writer took the whole buffer
\* reports that many bytes, so that the write_all around it goes on and
\* process() does not fail over it.
C21_VerifyOnlySucceeds ==
    (NumVerifiers >= 1 /\ NumDestinations = 0 /\ AllAccepted(last_call)) =>
        /\ last_call.n = Len(last_call.buf)
        /\ ppc # "err"

\* ------------------------------------------------------------------
\* RPMPackage::sign: the size passed to new_signature_header
\* ------------------------------------------------------------------

\* The payload is of up to MaxHi limbs and some bytes.
MaxHi == 4
LoSamples == {0, 1, Limb - 5, Limb - 2, Limb - 1}

\* The sum of two lengths, as usize computes it (no overflow at these sizes).
LengthAdd(a, b) == Length(a.hi + b.hi + ((a.lo + b.lo) \div Limb), (a.lo + b.lo) % Limb)

\* sign() is called on a package with some main header and some payload.
SizeInit ==
    /\ metadata = [lead |-> 1, signature |-> EmptyHeader, header |-> EmptyHeader]
    /\ PIdle
    /\ KIdle
    /\ CIdle
    /\ len_header \in {ToLength(Len(HeaderBytes(h))) : h \in Headers}
    /\ len_content \in {Length(hi, lo) : hi \in 0..MaxHi, lo \in LoSamples}
    /\ total_len = Length(0, 0)
    /\ size_arg = 0
    /\ size_pc = "new"

\* SeqCursor::new(&[header_bytes, content]): its len() is the sum of both.
SizeCursorNew ==
    /\ size_pc = "new"
    /\ total_len' = LengthAdd(len_header, len_content)
    /\ size_pc' = "len"
    /\ UNCHANGED <<len_header, len_content, size_arg, metadata, content, opvars, xvars,
                   bvars, cvars>>

\* new_signature_header(header_and_content_cursor.len() as i32, ..)
SizePass ==
    /\ size_pc = "len"
    /\ size_arg' = AsI32(total_len)
    /\ size_pc' = "done"
    /\ UNCHANGED <<len_header, len_content, total_len, metadata, content, opvars, xvars,
                   bvars, cvars>>

SizeNext ==
    \/ SizeCursorNew
    \/ SizePass

SizeSpec == SizeInit /\ [][SizeNext]_vars

\* C22: the size passed to new_signature_header is the length of the
\* serialized main header plus the length of the payload, whatever the
\* payload's length: it is not negative and not wrapped around.
C22_SizeIsExactLength ==
    size_pc = "done" =>
        /\ total_len = LengthAdd(len_header, len_content)
        /\ size_arg >= 0
        /\ ToLength(size_arg) = total_len

====
